---- MODULE Spec2Model ----
(***************************************************************************)
(* A model of the tennis coach: the two drafts of the useTennisCoach hook  *)
(* (swing detector + session controller), TennisMetricsCalculator and      *)
(* evaluateMetrics.                                                        *)
(*                                                                         *)
(* Units.  Coordinates are normalised image coordinates in thousandths     *)
(* (x = 500 is 0.5), visibilities are in thousandths, timestamps are in    *)
(* milliseconds and angles are in whole degrees.                           *)
(***************************************************************************)
EXTENDS Integers, Sequences, FiniteSets, TLC

\* ------------------------------------------------------------------ bounds
\* the clock never passes MaxTime (ms)
MaxTime == 980
\* startDetection is called at most MaxSessions times
MaxSessions == 2
\* at most MaxIrregular times the environment departs from "the next frame
\* comes one frame period later and shows the pose of the last frame"
MaxIrregular == 2

\* ------------------------------------------------------- program constants
THROTTLE_MS == 67
MIN_FRAMES == 15
CAPTURE_OVER == 10
MIN_VISIBILITY == 400
LEFT_SHOULDER == 11
RIGHT_SHOULDER == 12
RIGHT_ELBOW == 14
RIGHT_WRIST == 16
LEFT_HIP == 23
RIGHT_HIP == 24

\* ------------------------------------------------------------ environment
\* time between two calls of the frame callback: the regular frame period,
\* or a shorter one (below the throttle)
ShortGap == 30
FramePeriod == 70
Gaps == {ShortGap, FramePeriod}

\* the body poses the pose landmarker can report; it reports at most one
\* (res.landmarks[0]), so a detection result is a sequence of length <= 1
PoseIds == 1..4
Detections == {<<>>} \cup {<<p>> : p \in PoseIds}

Pt(x, y, z, v) == [x |-> x, y |-> y, z |-> z, visibility |-> v]

\* res.landmarks[0] for each pose: the landmarks the program reads.
\* pose 1: rest; pose 2: wrist moved and shoulders turned by 45 degrees;
\* pose 3: wrist moved only; pose 4: shoulders turned only;
\* pose 5: shoulders turned by 45 degrees, wrist moved by 0.07 (1.0 units/s at
\* the frame period); pose 6: wrist moved far, shoulders turned by 20 degrees;
\* pose 7: pose 2 with the right wrist hardly visible (0.1);
\* pose 8: pose 1 with the left hip exactly at the visibility threshold (0.4);
\* poses 9 and 10: a left-handed player, the left wrist (15) more visible
\* than the right one: at rest, and with the left wrist moved and the
\* shoulders turned by 45 degrees while the right wrist stays
Landmarks(p) ==
  CASE p = 1 -> [i \in {11, 12, 14, 15, 16, 23, 24} |->
                  CASE i = 11 -> Pt(400, 300, 0, 900)
                    [] i = 12 -> Pt(600, 300, 0, 900)
                    [] i = 14 -> Pt(600, 400, 0, 900)
                    [] i = 15 -> Pt(300, 500, -100, 800)
                    [] i = 16 -> Pt(500, 500, -100, 900)
                    [] i = 23 -> Pt(450, 600, 0, 900)
                    [] i = 24 -> Pt(550, 600, 0, 900)]
    [] p = 2 -> [i \in {11, 12, 14, 15, 16, 23, 24} |->
                  CASE i = 11 -> Pt(400, 200, 0, 900)
                    [] i = 12 -> Pt(600, 400, 0, 900)
                    [] i = 14 -> Pt(800, 600, 0, 900)
                    [] i = 15 -> Pt(300, 500, -100, 800)
                    [] i = 16 -> Pt(800, 900, -100, 900)
                    [] i = 23 -> Pt(450, 600, 0, 900)
                    [] i = 24 -> Pt(550, 600, 0, 900)]
    [] p = 3 -> [i \in {11, 12, 14, 15, 16, 23, 24} |->
                  CASE i = 11 -> Pt(400, 300, 0, 900)
                    [] i = 12 -> Pt(600, 300, 0, 900)
                    [] i = 14 -> Pt(800, 500, 0, 900)
                    [] i = 15 -> Pt(300, 500, -100, 800)
                    [] i = 16 -> Pt(800, 900, -100, 900)
                    [] i = 23 -> Pt(450, 600, 0, 900)
                    [] i = 24 -> Pt(550, 600, 0, 900)]
    [] p = 4 -> [i \in {11, 12, 14, 15, 16, 23, 24} |->
                  CASE i = 11 -> Pt(400, 200, 0, 900)
                    [] i = 12 -> Pt(600, 400, 0, 900)
                    [] i = 14 -> Pt(500, 400, 0, 900)
                    [] i = 15 -> Pt(300, 500, -100, 800)
                    [] i = 16 -> Pt(500, 500, -100, 900)
                    [] i = 23 -> Pt(450, 600, 0, 900)
                    [] i = 24 -> Pt(550, 600, 0, 900)]
    [] p = 5 -> [i \in {11, 12, 14, 15, 16, 23, 24} |->
                  CASE i = 11 -> Pt(400, 200, 0, 900)
                    [] i = 12 -> Pt(600, 400, 0, 900)
                    [] i = 14 -> Pt(600, 500, 0, 900)
                    [] i = 15 -> Pt(300, 500, -100, 800)
                    [] i = 16 -> Pt(570, 500, -100, 900)
                    [] i = 23 -> Pt(450, 600, 0, 900)
                    [] i = 24 -> Pt(550, 600, 0, 900)]
    [] p = 6 -> [i \in {11, 12, 14, 15, 16, 23, 24} |->
                  CASE i = 11 -> Pt(400, 300, 0, 900)
                    [] i = 12 -> Pt(600, 373, 0, 900)
                    [] i = 14 -> Pt(600, 473, 0, 900)
                    [] i = 15 -> Pt(300, 500, -100, 800)
                    [] i = 16 -> Pt(1000, 873, -100, 900)
                    [] i = 23 -> Pt(450, 600, 0, 900)
                    [] i = 24 -> Pt(550, 600, 0, 900)]
    [] p = 7 -> [i \in {11, 12, 14, 15, 16, 23, 24} |->
                  CASE i = 11 -> Pt(400, 200, 0, 900)
                    [] i = 12 -> Pt(600, 400, 0, 900)
                    [] i = 14 -> Pt(800, 600, 0, 900)
                    [] i = 15 -> Pt(300, 500, -100, 800)
                    [] i = 16 -> Pt(800, 900, -100, 100)
                    [] i = 23 -> Pt(450, 600, 0, 900)
                    [] i = 24 -> Pt(550, 600, 0, 900)]
    [] p = 8 -> [i \in {11, 12, 14, 15, 16, 23, 24} |->
                  CASE i = 11 -> Pt(400, 300, 0, 900)
                    [] i = 12 -> Pt(600, 300, 0, 900)
                    [] i = 14 -> Pt(600, 400, 0, 900)
                    [] i = 15 -> Pt(300, 500, -100, 800)
                    [] i = 16 -> Pt(500, 500, -100, 900)
                    [] i = 23 -> Pt(450, 600, 0, 400)
                    [] i = 24 -> Pt(550, 600, 0, 900)]
    [] p = 9 -> [i \in {11, 12, 14, 15, 16, 23, 24} |->
                  CASE i = 11 -> Pt(400, 300, 0, 900)
                    [] i = 12 -> Pt(600, 300, 0, 900)
                    [] i = 14 -> Pt(600, 400, 0, 900)
                    [] i = 15 -> Pt(300, 500, -100, 900)
                    [] i = 16 -> Pt(500, 500, -100, 500)
                    [] i = 23 -> Pt(450, 600, 0, 900)
                    [] i = 24 -> Pt(550, 600, 0, 900)]
    [] p = 10 -> [i \in {11, 12, 14, 15, 16, 23, 24} |->
                  CASE i = 11 -> Pt(400, 200, 0, 900)
                    [] i = 12 -> Pt(600, 400, 0, 900)
                    [] i = 14 -> Pt(600, 500, 0, 900)
                    [] i = 15 -> Pt(0, 100, -100, 900)
                    [] i = 16 -> Pt(500, 500, -100, 500)
                    [] i = 23 -> Pt(450, 600, 0, 900)
                    [] i = 24 -> Pt(550, 600, 0, 900)]

\* a Pose { ts, points }: the points are kept as the id of the body pose;
\* sess is a history tag (the session running when the frame was accepted),
\* never read by the program
MkPose(ts, p, s) == [ts |-> ts, p |-> p, sess |-> s]
Points(pose) == Landmarks(pose.p)

\* ---------------------------------------------------------------- numbers
Abs(n) == IF n < 0 THEN -n ELSE n
Min(a, b) == IF a < b THEN a ELSE b
Max(a, b) == IF a > b THEN a ELSE b
Sq(n) == n * n

\* Math.atan2(y, x) in degrees, on the directions where it is a whole
\* number of degrees (the axes and the diagonals), and on (200, 73), where
\* it is 20.05, to the nearest degree; atan2(0, 0) = 0
Atan2Deg(y, x) ==
  CASE y = 0 /\ x >= 0 -> 0
    [] y = 0 /\ x < 0 -> 180
    [] x = 0 /\ y > 0 -> 90
    [] x = 0 /\ y < 0 -> -90
    [] x > 0 /\ y = x -> 45
    [] x > 0 /\ y = -x -> -45
    [] x < 0 /\ y = -x -> 135
    [] x < 0 /\ y = x -> -135
    [] x = 200 /\ y = 73 -> 20

\* the difference of two angles left as it is
WrapDegNone(ang) == ang

\* if (ang > PI) ang -= 2 PI; if (ang < -PI) ang += 2 PI
WrapDeg(ang) ==
  LET a1 == IF ang > 180 THEN ang - 360 ELSE ang
  IN  IF a1 < -180 THEN a1 + 360 ELSE a1

\* Exact comparisons that stay inside 32-bit integers.
\* X^2 <= b^2 * s and X^2 < b^2 * s, for X >= 0, b > 0 (X written in base b)
SqLeq(X, b, s) ==
  LET x1 == X \div b
      x0 == X % b
      r == 2 * b * x1 * x0 + x0 * x0
  IN  x1 * x1 + ((r + b * b - 1) \div (b * b)) <= s

SqLt(X, b, s) ==
  LET x1 == X \div b
      x0 == X % b
      r == 2 * b * x1 * x0 + x0 * x0
  IN  x1 * x1 + (r \div (b * b)) < s

\* p / q > r / s for p, r >= 0 and q, s > 0 (by continued fractions)
RECURSIVE FracGt(_, _, _, _)
FracGt(p, q, r, s) ==
  IF p \div q # r \div s THEN p \div q > r \div s
  ELSE IF p % q = 0 THEN FALSE
  ELSE IF r % s = 0 THEN TRUE
  ELSE FracGt(s, r % s, q, p % q)

\* Math.round(b * sqrt(s) / (2 * den)) for s >= 0, den > 0:
\* the n with (2n-1) den <= b sqrt(s) < (2n+1) den
RoundSqrt(s, b, den, top) ==
  CHOOSE n \in 0..top :
    /\ (n = 0 \/ SqLeq((2 * n - 1) * den, b, s))
    /\ ~SqLeq((2 * n + 1) * den, b, s)

\* ------------------------------------------------ TennisMetricsCalculator
\* landmarks.every(lm => lm && (lm.visibility ?? 0) > MIN_VISIBILITY)
areLandmarksVisible(landmarks) ==
  \A i \in 1..Len(landmarks) : landmarks[i].visibility > MIN_VISIBILITY

calculateVector(from, to) == [x |-> to.x - from.x, y |-> to.y - from.y]

\* squared 3D distance (the root is taken where the distance is used)
calculateDistanceSq(p1, p2) == Sq(p1.x - p2.x) + Sq(p1.y - p2.y) + Sq(p1.z - p2.z)

\* acos of the clamped normalised dot product, in degrees: the unsigned angle
\* between the two directions, 0 for a zero vector
calculateAngleBetweenVectors(v1, v2) ==
  IF (v1.x = 0 /\ v1.y = 0) \/ (v2.x = 0 /\ v2.y = 0) THEN 0
  ELSE Abs(WrapDeg(Atan2Deg(v1.y, v1.x) - Atan2Deg(v2.y, v2.x)))

getEmptyMetrics ==
  [maxShoulderTurn |-> 0, peakArmSpeed |-> 0,
   contactMetrics |-> [distanceFromCore |-> 0, armAngle |-> 0, isFrontContact |-> FALSE],
   swingRhythm |-> 0]

RECURSIVE maxTurnFrom(_, _, _)
maxTurnFrom(poses, i, maxTurn) ==
  IF i > Len(poses) THEN maxTurn
  ELSE LET pts == Points(poses[i])
           vis == areLandmarksVisible(<<pts[LEFT_SHOULDER], pts[RIGHT_SHOULDER],
                                        pts[LEFT_HIP], pts[RIGHT_HIP]>>)
           angle == calculateAngleBetweenVectors(
                      calculateVector(pts[LEFT_SHOULDER], pts[RIGHT_SHOULDER]),
                      calculateVector(pts[LEFT_HIP], pts[RIGHT_HIP]))
       IN  maxTurnFrom(poses, i + 1,
                       IF vis /\ angle > maxTurn THEN angle ELSE maxTurn)

calculateMaxShoulderTurn(poses) == maxTurnFrom(poses, 1, 0)

\* the loop of _calculatePeakArmSpeed; the running maximum velocity is kept
\* as (squared distance, dt): velocity = sqrt(distSq) / dt, 0 at the start.
\* peakFrameIndex is the JavaScript (0-based) index
\* the loop skipping a pair only when no time at all has passed
RECURSIVE peakFromSkipZeroOnly(_, _, _)
peakFromSkipZeroOnly(poses, i, acc) ==
  IF i > Len(poses) THEN acc
  ELSE LET prev == poses[i - 1]
           curr == poses[i]
           dt == curr.ts - prev.ts
           prevWrist == Points(prev)[RIGHT_WRIST]
           currWrist == Points(curr)[RIGHT_WRIST]
           dSq == calculateDistanceSq(prevWrist, currWrist)
       IN  IF dt = 0 THEN peakFromSkipZeroOnly(poses, i + 1, acc)
           ELSE IF areLandmarksVisible(<<prevWrist, currWrist>>)
                   /\ FracGt(dSq, Sq(dt), acc.distSq, Sq(acc.dt))
                THEN peakFromSkipZeroOnly(poses, i + 1,
                              [distSq |-> dSq, dt |-> dt, peakFrameIndex |-> i - 1])
                ELSE peakFromSkipZeroOnly(poses, i + 1, acc)

RECURSIVE peakFrom(_, _, _)
peakFrom(poses, i, acc) ==
  IF i > Len(poses) THEN acc
  ELSE LET prev == poses[i - 1]
           curr == poses[i]
           dt == curr.ts - prev.ts
           prevWrist == Points(prev)[RIGHT_WRIST]
           currWrist == Points(curr)[RIGHT_WRIST]
           dSq == calculateDistanceSq(prevWrist, currWrist)
       IN  IF dt <= 0 THEN peakFrom(poses, i + 1, acc)
           ELSE IF areLandmarksVisible(<<prevWrist, currWrist>>)
                   /\ FracGt(dSq, Sq(dt), acc.distSq, Sq(acc.dt))
                THEN peakFrom(poses, i + 1,
                              [distSq |-> dSq, dt |-> dt, peakFrameIndex |-> i - 1])
                ELSE peakFrom(poses, i + 1, acc)

calculatePeakArmSpeed(poses) ==
  LET acc == peakFrom(poses, 2, [distSq |-> 0, dt |-> 1, peakFrameIndex |-> 0])
      \* Math.min(100, maxVelocity * 50), then Math.round
      speed == IF acc.distSq >= 4 * Sq(acc.dt) THEN 100
               ELSE RoundSqrt(acc.distSq, 100, acc.dt, 100)
  IN  [speed |-> speed, peakFrameIndex |-> acc.peakFrameIndex]

\* _getHipCenter gives the midpoint of the hips, or null; here the midpoint
\* is kept doubled (lh + rh) so that it stays a whole number
hipCenterVisible(pose) ==
  areLandmarksVisible(<<Points(pose)[LEFT_HIP], Points(pose)[RIGHT_HIP]>>)

\* the contact metrics computed without asking for the hip centre
calculateContactMetricsNoHip(contactFrame) ==
  LET pts == Points(contactFrame)
      shoulder == pts[RIGHT_SHOULDER]
      elbow == pts[RIGHT_ELBOW]
      wrist == pts[RIGHT_WRIST]
      lh == pts[LEFT_HIP]
      rh == pts[RIGHT_HIP]
      d4 == Sq(lh.x + rh.x - 2 * wrist.x) + Sq(lh.y + rh.y - 2 * wrist.y)
            + Sq(lh.z + rh.z - 2 * wrist.z)
  IN  IF ~areLandmarksVisible(<<shoulder, elbow, wrist>>)
      THEN [distanceFromCore |-> 0, armAngle |-> 0, isFrontContact |-> FALSE]
      ELSE [distanceFromCore |-> RoundSqrt(d4, 3, 20, 300),
            armAngle |-> calculateAngleBetweenVectors(
                           calculateVector(shoulder, elbow),
                           calculateVector(elbow, wrist)),
            isFrontContact |-> wrist.z < shoulder.z]

calculateContactMetrics(contactFrame) ==
  LET pts == Points(contactFrame)
      shoulder == pts[RIGHT_SHOULDER]
      elbow == pts[RIGHT_ELBOW]
      wrist == pts[RIGHT_WRIST]
      lh == pts[LEFT_HIP]
      rh == pts[RIGHT_HIP]
      \* (2 * distance(hip, wrist))^2
      d4 == Sq(lh.x + rh.x - 2 * wrist.x) + Sq(lh.y + rh.y - 2 * wrist.y)
            + Sq(lh.z + rh.z - 2 * wrist.z)
  IN  IF ~areLandmarksVisible(<<shoulder, elbow, wrist>>) \/ ~hipCenterVisible(contactFrame)
      THEN [distanceFromCore |-> 0, armAngle |-> 0, isFrontContact |-> FALSE]
      \* Math.round(distance * 150) = round(3 * sqrt(d4) / 40)
      ELSE [distanceFromCore |-> RoundSqrt(d4, 3, 20, 300),
            armAngle |-> calculateAngleBetweenVectors(
                           calculateVector(shoulder, elbow),
                           calculateVector(elbow, wrist)),
            isFrontContact |-> wrist.z < shoulder.z]

RECURSIVE sumIntervals(_, _, _)
\* the sum of (ts[i] - ts[i-1])^e over the intervals, e = 1 or 2
sumIntervals(poses, i, e) ==
  IF i > Len(poses) THEN 0
  ELSE LET d == poses[i].ts - poses[i - 1].ts
       IN  (IF e = 1 THEN d ELSE d * d) + sumIntervals(poses, i + 1, e)

\* cv = stdDev / mean = sqrt(n * sum d^2 - (sum d)^2) / sum d;
\* Math.round(Math.max(0, 100 - cv * 200))
calculateSwingRhythm(poses) ==
  IF Len(poses) < 3 THEN 0
  ELSE LET n == Len(poses) - 1
           t == sumIntervals(poses, 2, 1)
           v == n * sumIntervals(poses, 2, 2) - t * t
       IN  IF t <= 0 THEN 100
           ELSE IF 4 * v >= t * t THEN 0
           ELSE CHOOSE k \in 0..100 :
                  \* (199 - 2k) t < 400 sqrt(v) <= (201 - 2k) t
                  /\ (199 - 2 * k < 0 \/ SqLt((199 - 2 * k) * t, 400, v))
                  /\ ~SqLt((201 - 2 * k) * t, 400, v)

\* calculateMetrics with the length test one frame lower
calculateMetricsMin4(poses) ==
  IF Len(poses) < 4 THEN getEmptyMetrics
  ELSE LET peakArmSpeedData == calculatePeakArmSpeed(poses)
           contactFrame == poses[peakArmSpeedData.peakFrameIndex + 1]
       IN  [maxShoulderTurn |-> calculateMaxShoulderTurn(poses),
            peakArmSpeed |-> peakArmSpeedData.speed,
            contactMetrics |-> calculateContactMetrics(contactFrame),
            swingRhythm |-> calculateSwingRhythm(poses)]

calculateMetrics(poses) ==
  IF Len(poses) < 5 THEN getEmptyMetrics
  ELSE LET peakArmSpeedData == calculatePeakArmSpeed(poses)
           contactFrame == poses[peakArmSpeedData.peakFrameIndex + 1]
       IN  [maxShoulderTurn |-> calculateMaxShoulderTurn(poses),
            peakArmSpeed |-> peakArmSpeedData.speed,
            contactMetrics |-> calculateContactMetrics(contactFrame),
            swingRhythm |-> calculateSwingRhythm(poses)]

\* --------------------------------------------------------------- feedback
\* the messages evaluateMetrics selects (the source's are in Chinese)
MSG_INITIAL == "nice, keep it up"
MSG_POWERFUL == "great swing, keep the rhythm"
MSG_GOOD == "good, turn the shoulders more"
MSG_ROTATION == "not enough shoulder turn"
MSG_EXTEND == "straighten the arm, widen the contact distance"
MSG_SLOW == "speed up the final swing"
MSG_RHYTHM == "rhythm uneven, swing smoothly"

\* the cap of the shoulder-turn ratio
SHOULDER_CAP == 120

\* the score without the cap on the shoulder turn
scoreUncapped(m, cap) ==
  LET num == 30 * 40 * m.maxShoulderTurn
             + 9 * cap * m.peakArmSpeed
             + 5 * cap * Min(m.contactMetrics.distanceFromCore, 120)
             + 3 * cap * m.swingRhythm
  IN  (2 * num + 30 * cap) \div (60 * cap)

\* Math.round(shoulder * 40 + speed * 30 + dist * 20 + rhythm * 10) with
\* shoulder = min(turn, cap) / cap, speed = s / 100, dist = min(d, 120) / 120,
\* rhythm = r / 100, over the common denominator 30 * cap; round is floor(x + 1/2)
scoreWithCap(m, cap) ==
  LET num == 30 * 40 * Min(m.maxShoulderTurn, cap)
             + 9 * cap * m.peakArmSpeed
             + 5 * cap * Min(m.contactMetrics.distanceFromCore, 120)
             + 3 * cap * m.swingRhythm
  IN  (2 * num + 30 * cap) \div (60 * cap)

\* the score with the shoulder turn capped at 80 degrees
compositeScore80(m) == scoreWithCap(m, 80)

compositeScore(m) == scoreWithCap(m, SHOULDER_CAP)

\* the table without its contact-distance row
evaluateMetricsFiveRows(m) ==
  LET score == compositeScore(m)
      feedback ==
        IF score > 85 THEN MSG_POWERFUL
        ELSE IF score > 70 THEN MSG_GOOD
        ELSE IF m.maxShoulderTurn < 50 THEN MSG_ROTATION
        ELSE IF 10 * m.peakArmSpeed < 4 * 100 THEN MSG_SLOW
        ELSE MSG_RHYTHM
  IN  [score |-> score, feedback |-> feedback]

evaluateMetrics(m) ==
  LET score == compositeScore(m)
      feedback ==
        IF score > 85 THEN MSG_POWERFUL
        ELSE IF score > 70 THEN MSG_GOOD
        ELSE IF m.maxShoulderTurn < 50 THEN MSG_ROTATION
        ELSE IF m.contactMetrics.distanceFromCore < 40 THEN MSG_EXTEND
        ELSE IF 10 * m.peakArmSpeed < 4 * 100 THEN MSG_SLOW
        ELSE MSG_RHYTHM
  IN  [score |-> score, feedback |-> feedback]

\* ------------------------------------------------------------------ state
VARIABLES
  variant,      \* which draft of the hook runs: 1 (speech synthesis) or 2 (request based)
  now,          \* the clock performance.now() reads, ms
  loading,      \* init() of the mount effect has not settled yet
  initialized, detecting, analyzing, swingCount, result, status,   \* useState
  seq, triggered, lastTS,                                          \* useRef
  queue, speakBusy,       \* draft 1: texts waiting to be spoken, the busy flag
  utterance,              \* draft 1: what speechSynthesis is speaking (<<>>: nothing)
  audioQ, playing, cache, \* draft 2: blobs waiting, the busy flag, texts with a cached blob
  clips,                  \* draft 2: the Audio elements that are playing
  calls,                  \* draft 2: the invocations of analyze() that have not returned
  \* history, never read by the program
  session,      \* number of startDetection calls that started a session
  irregular,    \* irregularities of the environment so far
  body,         \* the pose of the last detection (at first: pose 1, at rest)
  op,           \* the handler that ran last and the branch it took
  hist,         \* the frames accepted (made into a Pose) since the session started, last three
  swingTS,      \* the times of the swings confirmed since the session started
  peak,         \* the frame on which the last swing was confirmed (<<>>: none yet)
  nResults,     \* results stored since the session started
  lastPoses,    \* the argument of the last calculateMetrics call
  \* the pure functions on their own (specification EvalSpec)
  input,        \* the argument, in a sequence of length 1
  output        \* the value returned (<<>>: not called yet)

vars == <<variant, now, loading, initialized, detecting, analyzing, swingCount, result,
          status, seq, triggered, lastTS, queue, speakBusy, utterance, audioQ, playing,
          cache, clips, calls, session, irregular, body, op, hist, swingTS, peak,
          nResults, lastPoses, input, output>>

pureVars == <<input, output>>

\* the feedback texts /api/analyze can return, and the apology of analyze()'s catch
Feedbacks == {"tip"}
SORRY == "sorry, the analysis failed, please try again"

\* the hook as useTennisCoach() leaves it on mount, running draft v
HookInit(v) ==
  /\ variant = v
  /\ now = 0
  /\ loading = TRUE
  /\ initialized = FALSE
  /\ detecting = FALSE
  /\ analyzing = FALSE
  /\ swingCount = 0
  /\ result = <<>>
  /\ status = "Loading models"
  /\ seq = <<>>
  /\ triggered = FALSE
  /\ lastTS = 0
  /\ queue = <<>>
  /\ speakBusy = FALSE
  /\ utterance = <<>>
  /\ audioQ = <<>>
  /\ playing = FALSE
  /\ cache = {}
  /\ clips = <<>>
  /\ calls = <<>>
  /\ session = 0
  /\ irregular = 0
  /\ body = 1
  /\ op = "mount"
  /\ hist = <<>>
  /\ swingTS = <<>>
  /\ peak = <<>>
  /\ nResults = 0
  /\ lastPoses = <<>>

Init ==
  /\ \E v \in {1, 2} : HookInit(v)
  /\ input = <<>>
  /\ output = <<>>

\* ------------------------------------------------------------- the trigger
\* v > 1.5 && av > 2.5 for the pair (prev, cur), dt = cur.ts - prev.ts > 0:
\*   v  = hypot(dx, dy) / (dt / 1000)                (coordinates in thousandths)
\*   av = |wrapped difference of the shoulder-line angles, in rad| / (dt / 1000)
speedOver(prev, cur) ==
  LET wrist == Points(cur)[RIGHT_WRIST]
      wristPrev == Points(prev)[RIGHT_WRIST]
      dt == cur.ts - prev.ts
  IN  4 * (Sq(wrist.x - wristPrev.x) + Sq(wrist.y - wristPrev.y)) > 9 * Sq(dt)

shoulderAngle(pose) ==
  LET lS == Points(pose)[LEFT_SHOULDER]
      rS == Points(pose)[RIGHT_SHOULDER]
  IN  Atan2Deg(rS.y - lS.y, rS.x - lS.x)

rotationOver(prev, cur) ==
  LET ang == WrapDeg(shoulderAngle(cur) - shoulderAngle(prev))
      dt == cur.ts - prev.ts
  \* |ang| * (pi / 180) / (dt / 1000) > 2.5, pi = 3.141593
  IN  Abs(ang) * 3141593 > 450000 * dt

\* the trigger with || in place of &&
swingTriggerEither(prev, cur) == speedOver(prev, cur) \/ rotationOver(prev, cur)

swingTrigger(prev, cur) == speedOver(prev, cur) /\ rotationOver(prev, cur)

\* ---------------------------------------------------------------- helpers
LastN(s, n) == IF Len(s) <= n THEN s ELSE SubSeq(s, Len(s) - n + 1, Len(s))
RemoveAt(s, i) == SubSeq(s, 1, i - 1) \o SubSeq(s, i + 1, Len(s))

\* what the environment may do next within the bounds: the time to the next
\* callback, and whether a detection result costs an irregularity
GapCost(gap) == IF gap = FramePeriod THEN 0 ELSE 1
DetCost(det) == IF det # <<>> /\ det[1] = body THEN 0 ELSE 1

\* The handlers are written as functions from the hook's state to its next
\* state: Cur is the state as a record, Set(st) makes st the next state.
Cur ==
  [initialized |-> initialized, detecting |-> detecting, analyzing |-> analyzing,
   swingCount |-> swingCount, result |-> result, status |-> status,
   seq |-> seq, triggered |-> triggered, lastTS |-> lastTS,
   queue |-> queue, speakBusy |-> speakBusy, utterance |-> utterance,
   audioQ |-> audioQ, playing |-> playing, cache |-> cache, clips |-> clips,
   calls |-> calls, session |-> session, op |-> op, hist |-> hist,
   swingTS |-> swingTS, peak |-> peak, nResults |-> nResults,
   lastPoses |-> lastPoses]

Set(st) ==
  /\ initialized' = st.initialized
  /\ detecting' = st.detecting
  /\ analyzing' = st.analyzing
  /\ swingCount' = st.swingCount
  /\ result' = st.result
  /\ status' = st.status
  /\ seq' = st.seq
  /\ triggered' = st.triggered
  /\ lastTS' = st.lastTS
  /\ queue' = st.queue
  /\ speakBusy' = st.speakBusy
  /\ utterance' = st.utterance
  /\ audioQ' = st.audioQ
  /\ playing' = st.playing
  /\ cache' = st.cache
  /\ clips' = st.clips
  /\ calls' = st.calls
  /\ session' = st.session
  /\ op' = st.op
  /\ hist' = st.hist
  /\ swingTS' = st.swingTS
  /\ peak' = st.peak
  /\ nResults' = st.nResults
  /\ lastPoses' = st.lastPoses

\* ------------------------------------------------- draft 1: speech, analyze
\* playQueue: speak the next queued text unless busy
playQueue(st) ==
  IF st.speakBusy \/ st.queue = <<>> THEN st
  ELSE [st EXCEPT !.queue = Tail(@), !.speakBusy = TRUE,
                  !.utterance = <<Head(st.queue)>>]

speak1(st, text) == playQueue([st EXCEPT !.queue = Append(@, text)])

isValid(m) ==
  /\ m.maxShoulderTurn > 10
  /\ m.peakArmSpeed > 20
  /\ m.contactMetrics.distanceFromCore > 10

analyze1(st, poses) ==
  LET metrics == calculateMetrics(poses)
      st1 == [st EXCEPT !.lastPoses = poses]
      fb == evaluateMetrics(metrics)
  IN  IF ~isValid(metrics) THEN [st1 EXCEPT !.status = "Need more data"]
      ELSE [speak1(st1, fb.feedback) EXCEPT
              !.result = <<[feedback |-> fb.feedback, score |-> fb.score,
                            metrics |-> metrics, sess |-> st.session]>>,
              !.nResults = @ + 1,
              !.status = "Ready"]

\* ------------------------------------------------------ draft 1: onFrame
\* if (triggered.current) { push; if (length >= MIN_FRAMES) { analyze; triggered = false } }
capture1(st, pose) ==
  LET s1 == Append(st.seq, pose)
  IN  IF Len(s1) >= MIN_FRAMES
      THEN [analyze1([st EXCEPT !.seq = s1], s1) EXCEPT
              !.triggered = FALSE, !.op = "frame.analyze"]
      ELSE [st EXCEPT !.seq = s1, !.op = "frame.capture"]

\* if (seq.length) seq.shift(); seq.push(pose); if (seq.length >= 3) { ...seq[2], seq[1]... }
detect1(st, pose) ==
  LET s1 == (IF st.seq # <<>> THEN Tail(st.seq) ELSE st.seq) \o <<pose>>
      st1 == [st EXCEPT !.seq = s1]
  IN  IF Len(s1) >= 3
      THEN LET cur == s1[3]
               prev == s1[2]
           IN  IF cur.ts - prev.ts <= 0 THEN [st1 EXCEPT !.op = "frame.nodt"]
               ELSE IF swingTrigger(prev, cur)
               THEN [st1 EXCEPT !.triggered = TRUE, !.seq = <<cur>>,
                                !.swingCount = @ + 1,
                                !.swingTS = Append(@, pose.ts),
                                !.peak = <<cur>>,
                                !.op = "frame.trigger"]
               ELSE [st1 EXCEPT !.op = "frame.quiet"]
      ELSE [st1 EXCEPT !.op = "frame.short"]

\* whether a call of onFrame at time t gets as far as detectForVideo
\* a throttle that lets every frame pass
throttledNever(st, t) == FALSE

\* if (now - lastTS.current < 67) return
throttled(st, t) == t - st.lastTS < THROTTLE_MS

reaches1(st, t) == st.detecting /\ st.initialized /\ ~throttled(st, t)

onFrame1(st, t, det) ==
  IF ~st.detecting \/ ~st.initialized THEN [st EXCEPT !.op = "frame.off"]
  ELSE IF throttled(st, t) THEN [st EXCEPT !.op = "frame.throttled"]
  ELSE LET st1 == [st EXCEPT !.lastTS = t]
       IN  IF det = <<>> THEN [st1 EXCEPT !.op = "frame.nopose"]
           ELSE LET pose == MkPose(t, det[1], st.session)
                    st2 == [st1 EXCEPT !.hist = LastN(Append(@, pose), 3)]
                IN  IF st.triggered THEN capture1(st2, pose) ELSE detect1(st2, pose)

\* ------------------------------------------------ draft 2: playback, speak
\* playNext: start the next queued blob unless one is playing
playNext(st) ==
  IF st.playing \/ st.audioQ = <<>> THEN st
  ELSE [st EXCEPT !.audioQ = Tail(@), !.playing = TRUE,
                  !.clips = Append(@, Head(st.audioQ))]

\* audioQ.current.push(blob); playNext() -- the blob is tagged with the
\* session that was running when the analysis asking for it began
pushAndPlay(st, text, sess) ==
  playNext([st EXCEPT !.audioQ = Append(@, [text |-> text, sess |-> sess])])

\* analyze(): the part before the first await
analyze2(st, poses) ==
  [st EXCEPT !.analyzing = TRUE,
             !.status = "Analyzing",
             !.lastPoses = poses,
             !.calls = Append(@, [sess |-> st.session, stage |-> "analyze",
                                  text |-> "", metrics |-> calculateMetrics(poses)])]

\* finally { setAnalyzing(false); setStatus('Ready') }, and analyze() returns
finally2(st, i) ==
  [st EXCEPT !.analyzing = FALSE, !.status = "Ready", !.calls = RemoveAt(@, i)]

\* setResult({ feedback: json.feedback, metrics })
setResult2(st, i, feedback) ==
  [st EXCEPT !.result = <<[feedback |-> feedback, metrics |-> st.calls[i].metrics,
                           sess |-> st.calls[i].sess]>>,
             !.nResults = @ + 1]

\* a catch branch that resets the detector as well
catch2Resetting(st, i) ==
  LET st0 == [st EXCEPT !.seq = <<>>, !.triggered = FALSE]
  IN  IF SORRY \in st.cache
      THEN [st0 EXCEPT !.analyzing = FALSE, !.status = "Ready",
                       !.calls = RemoveAt(@, i)]
      ELSE [st0 EXCEPT !.calls[i].stage = "ttsCatch"]

\* catch (e) { await speak(SORRY) }: played from the cache, or a TTS request
catch2(st, i) ==
  IF SORRY \in st.cache
  THEN finally2(pushAndPlay(st, SORRY, st.calls[i].sess), i)
  ELSE [st EXCEPT !.calls[i].stage = "ttsCatch"]

\* the response of fetch('/api/analyze'): "ok" with json.feedback = text,
\* "nofeedback" (a JSON body without feedback), "fail" (fetch or r.json() rejects)
analyzeResponse(st, i, outcome, text) ==
  LET st1 == [st EXCEPT !.op = "analyzeResponse." \o outcome]
  IN  CASE outcome = "ok" ->
             IF text \in st.cache
             THEN finally2(setResult2(pushAndPlay(st1, text, st.calls[i].sess), i, text), i)
             ELSE [st1 EXCEPT !.calls[i].stage = "tts",
                              !.calls[i].text = text]
        [] outcome = "nofeedback" -> finally2(setResult2(st1, i, "undefined"), i)
        [] outcome = "fail" -> catch2(st1, i)

\* the response of speak()'s fetch('/api/tts'): "ok" (a blob), "notok" (!r.ok),
\* "fail" (fetch or r.blob() rejects); the request was made in analyze()'s try
\* block (stage "tts") or in its catch block (stage "ttsCatch")
ttsResponse(st, i, outcome) ==
  LET st1 == [st EXCEPT !.op = "ttsResponse." \o outcome]
      c == st.calls[i]
      text == IF c.stage = "tts" THEN c.text ELSE SORRY
      spoken == pushAndPlay([st1 EXCEPT !.cache = @ \cup {text}], text, c.sess)
  IN  IF c.stage = "tts"
      THEN CASE outcome = "ok" -> finally2(setResult2(spoken, i, c.text), i)
             [] outcome = "notok" -> finally2(setResult2(st1, i, c.text), i)
             [] outcome = "fail" -> catch2(st1, i)
      ELSE CASE outcome = "ok" -> finally2(spoken, i)
             [] outcome = "notok" -> finally2(st1, i)
             [] outcome = "fail" -> finally2(st1, i)

\* audio.onended, audio.onerror and the rejection of audio.play() all do:
\* playing = false; playNext()
audioDone(st, i) ==
  playNext([st EXCEPT !.clips = RemoveAt(@, i), !.playing = FALSE,
                      !.op = "audioDone"])

\* ------------------------------------------------------ draft 2: onFrame
\* if (triggered.current) { push; if (length > 10) { analyze; triggered = false } }
capture2(st, pose) ==
  LET s1 == Append(st.seq, pose)
  IN  IF Len(s1) > CAPTURE_OVER
      THEN [analyze2([st EXCEPT !.seq = s1], s1) EXCEPT
              !.triggered = FALSE, !.op = "frame.analyze"]
      ELSE [st EXCEPT !.seq = s1, !.op = "frame.capture"]

\* recent = [...seq.slice(-2), pose]; seq = recent; ...recent[2], recent[1]...
detect2(st, pose) ==
  LET recent == LastN(st.seq, 2) \o <<pose>>
      st1 == [st EXCEPT !.seq = recent]
  IN  IF Len(recent) < 3 THEN [st1 EXCEPT !.op = "frame.short"]
      ELSE LET cur == recent[3]
               prev == recent[2]
           IN  IF cur.ts - prev.ts <= 0 THEN [st1 EXCEPT !.op = "frame.nodt"]
               ELSE IF swingTrigger(prev, cur)
               THEN [st1 EXCEPT !.triggered = TRUE, !.seq = <<cur>>,
                                !.swingCount = @ + 1,
                                !.swingTS = Append(@, pose.ts),
                                !.peak = <<cur>>,
                                !.op = "frame.trigger"]
               ELSE [st1 EXCEPT !.op = "frame.quiet"]

\* the guard without the analyzing flag
frameGuard2NoAnalyzing(st) == ~st.detecting \/ ~st.initialized

\* the first line of onFrame: if (!detecting || analyzing || !initialized) return
frameGuard2(st) == ~st.detecting \/ st.analyzing \/ ~st.initialized

reaches2(st, t) == ~frameGuard2(st) /\ ~throttled(st, t)

onFrame2(st, t, det) ==
  IF frameGuard2(st) THEN [st EXCEPT !.op = "frame.off"]
  ELSE IF throttled(st, t) THEN [st EXCEPT !.op = "frame.throttled"]
  ELSE LET st1 == [st EXCEPT !.lastTS = t]
       IN  IF det = <<>> THEN [st1 EXCEPT !.op = "frame.nopose"]
           ELSE LET pose == MkPose(t, det[1], st.session)
                    st2 == [st1 EXCEPT !.hist = LastN(Append(@, pose), 3)]
                IN  IF st.triggered THEN capture2(st2, pose) ELSE detect2(st2, pose)

\* ------------------------------------------------------------- start, stop
start(st) ==
  IF ~st.initialized THEN [st EXCEPT !.op = "start.ignored"]
  ELSE [st EXCEPT !.detecting = TRUE, !.swingCount = 0, !.result = <<>>,
                  !.status = "Watching", !.op = "start",
                  !.session = @ + 1, !.hist = <<>>, !.swingTS = <<>>,
                  !.nResults = 0]

\* draft 1: speechSynthesis.cancel() silences the utterance being spoken
stop1(st) ==
  [st EXCEPT !.detecting = FALSE, !.status = "Stopped", !.utterance = <<>>,
             !.queue = <<>>, !.op = "stop"]

stop2(st) ==
  [st EXCEPT !.detecting = FALSE, !.status = "Stopped", !.audioQ = <<>>,
             !.playing = FALSE, !.op = "stop"]

\* ---------------------------------------------------------------- actions
\* the mount effect's init() resolves: setInitialized(true); setStatus('Ready')
InitDone ==
  /\ loading
  /\ loading' = FALSE
  /\ Set([Cur EXCEPT !.initialized = TRUE, !.status = "Ready", !.op = "init"])
  /\ UNCHANGED <<variant, now, irregular, body, pureVars>>

\* init() rejects: setStatus('Init failed')
InitFailed ==
  /\ loading
  /\ loading' = FALSE
  /\ Set([Cur EXCEPT !.status = "Init failed", !.op = "initFailed"])
  /\ UNCHANGED <<variant, now, irregular, body, pureVars>>

\* the page's button calls startDetection when no session is running
StartDetection ==
  /\ ~detecting
  /\ initialized => session < MaxSessions
  /\ Set(start(Cur))
  /\ UNCHANGED <<variant, now, loading, irregular, body, pureVars>>

\* ... and stopDetection when one is
StopDetection ==
  /\ detecting
  /\ Set(IF variant = 1 THEN stop1(Cur) ELSE stop2(Cur))
  /\ UNCHANGED <<variant, now, loading, irregular, body, pureVars>>

\* the page's animation-frame loop, which runs while a session does, calls
\* handleFrame, gap ms after its last call; the landmarker's answer det
\* matters only if the call asks for it
OnFrame(gap, det) ==
  LET t == now + gap
      asks == IF variant = 1 THEN reaches1(Cur, t) ELSE reaches2(Cur, t)
      cost == GapCost(gap) + (IF asks THEN DetCost(det) ELSE 0)
  IN  /\ detecting
      /\ t <= MaxTime
      /\ asks \/ det = <<>>
      /\ irregular + cost <= MaxIrregular
      /\ now' = t
      /\ irregular' = irregular + cost
      /\ body' = IF asks /\ det # <<>> THEN det[1] ELSE body
      /\ Set(IF variant = 1 THEN onFrame1(Cur, t, det) ELSE onFrame2(Cur, t, det))
      /\ UNCHANGED <<variant, loading, pureVars>>

AnalyzeResponse(i, outcome, text) ==
  /\ i \in 1..Len(calls)
  /\ calls[i].stage = "analyze"
  /\ Set(analyzeResponse(Cur, i, outcome, text))
  /\ UNCHANGED <<variant, now, loading, irregular, body, pureVars>>

TtsResponse(i, outcome) ==
  /\ i \in 1..Len(calls)
  /\ calls[i].stage \in {"tts", "ttsCatch"}
  /\ Set(ttsResponse(Cur, i, outcome))
  /\ UNCHANGED <<variant, now, loading, irregular, body, pureVars>>

AudioDone(i) ==
  /\ i \in 1..Len(clips)
  /\ Set(audioDone(Cur, i))
  /\ UNCHANGED <<variant, now, loading, irregular, body, pureVars>>

Next ==
  \/ InitDone
  \/ InitFailed
  \/ StartDetection
  \/ StopDetection
  \/ \E gap \in Gaps, det \in Detections : OnFrame(gap, det)
  \/ \E i \in 1..2, outcome \in {"ok", "nofeedback", "fail"}, text \in Feedbacks :
       AnalyzeResponse(i, outcome, text)
  \/ \E i \in 1..2, outcome \in {"ok", "notok", "fail"} : TtsResponse(i, outcome)
  \/ \E i \in 1..2 : AudioDone(i)

Spec == Init /\ [][Next]_vars

\* a request that is outstanding is answered, or fails
Respond ==
  \/ \E i \in 1..2, outcome \in {"ok", "nofeedback", "fail"}, text \in Feedbacks :
       AnalyzeResponse(i, outcome, text)
  \/ \E i \in 1..2, outcome \in {"ok", "notok", "fail"} : TtsResponse(i, outcome)

\* fetch settles in the end: no request stays outstanding for ever
FairSpec == Spec /\ WF_vars(Respond)

\* -------------------------------------------- the pure functions, alone
hookVars == <<variant, now, loading, initialized, detecting, analyzing, swingCount,
              result, status, seq, triggered, lastTS, queue, speakBusy, utterance,
              audioQ, playing, cache, clips, calls, session, irregular, body, op,
              hist, swingTS, peak, nResults, lastPoses>>

\* metrics records at and around the evaluator's thresholds
MetricsInputs ==
  { [maxShoulderTurn |-> s, peakArmSpeed |-> p,
     contactMetrics |-> [distanceFromCore |-> d, armAngle |-> 0, isFrontContact |-> fc],
     swingRhythm |-> r] :
      s \in {0, 49, 50, 79, 80, 90, 120, 180}, p \in {0, 39, 40, 100},
      d \in {0, 39, 40, 119, 120, 130}, r \in {0, 50, 100}, fc \in {FALSE} }

EvalInit ==
  /\ HookInit(1)
  /\ input \in {<<m>> : m \in MetricsInputs}
  /\ output = <<>>

Evaluate ==
  /\ output = <<>>
  /\ output' = <<evaluateMetrics(input[1])>>
  /\ UNCHANGED <<hookVars, input>>

EvalSpec == EvalInit /\ [][Evaluate]_vars

\* ================================================================== claims
\* the cooldown the specification asks for after a confirmed swing (ms)
COOLDOWN_MS == 2000

\* C1 (as claimed): lockout -- two swings confirmed in one session are at
\* least the cooldown apart: no frame handled before the cooldown has elapsed
\* confirms a second swing, the first frames after the capture and analysis
\* of the first swing included.
C1_Lockout ==
  \A i, j \in 1..Len(swingTS) : i < j => swingTS[j] - swingTS[i] >= COOLDOWN_MS

\* C2 (as claimed): stopDetection leaves the frame buffer empty, so every
\* sequence passed to calculateMetrics is made of frames of one session only
\* and the first frame after a start has no 'previous' frame.
C2_StopClearsFrames ==
  /\ op = "stop" => seq = <<>>
  /\ \A i \in 1..Len(lastPoses) : lastPoses[i].sess = lastPoses[1].sess
  /\ \A i \in 1..Len(seq) : ~triggered => seq[i].sess = session

\* C3 (as claimed): right after startDetection on an initialized hook the
\* buffer is empty, the detector is untriggered, swingCount is 0 and the stored
\* result is none; on a hook that is not initialized startDetection changes
\* nothing.
C3_StartResets ==
  [][ /\ op' = "start" =>
           seq' = <<>> /\ ~triggered' /\ swingCount' = 0 /\ result' = <<>>
      /\ op' = "start.ignored" =>
           UNCHANGED <<initialized, detecting, analyzing, swingCount, result, status,
                       seq, triggered, lastTS, queue, speakBusy, audioQ, playing,
                       cache>> ]_vars

C5_TriggerFires ==
  [][ ( /\ session = 1 /\ session' = 1
        /\ ~triggered
        /\ hist' # hist
        /\ Len(hist') >= 3
        /\ swingTrigger(hist'[2], hist'[3]) )
      => (triggered' /\ swingCount' = swingCount + 1) ]_vars

\* C10 (as claimed): the score is round(min(turn, 80) / 80 * 40 + speed / 100
\* * 30 + min(dist, 120) / 120 * 20 + rhythm / 100 * 10), so that a record with
\* turn >= 80, speed = 100, dist >= 120 and rhythm = 100 scores exactly 100
\* and gets the 'powerful' message.
C10_ScoreFormula ==
  output # <<>> =>
    LET m == input[1]
    IN  /\ output[1].score = scoreWithCap(m, 80)
        /\ ( /\ m.maxShoulderTurn >= 80
             /\ m.peakArmSpeed = 100
             /\ m.contactMetrics.distanceFromCore >= 120
             /\ m.swingRhythm = 100 )
           => (output[1].score = 100 /\ output[1].feedback = MSG_POWERFUL)

\* ---- steps, as the claims speak of them
\* a frame is accepted (made into a Pose) while the detector is untriggered
AcceptUntriggered == ~triggered /\ session' = session /\ hist' # hist
\* ... while it is capturing
AcceptTriggered == triggered /\ session' = session /\ hist' # hist
NewFrame == hist'[Len(hist')]
\* both trigger conditions hold between the newest frame of the window and the new frame
BothHold ==
  /\ seq # <<>>
  /\ speedOver(seq[Len(seq)], NewFrame)
  /\ rotationOver(seq[Len(seq)], NewFrame)
Fired == triggered' /\ swingCount' = swingCount + 1

C6_TriggerPart ==
  AcceptUntriggered =>
    /\ (triggered' \/ swingCount' # swingCount) => (BothHold /\ Fired)
    /\ ~BothHold => ( /\ ~triggered' /\ swingCount' = swingCount
                      /\ seq' # <<>> /\ seq'[Len(seq')] = NewFrame )
    /\ Fired => (seq' = <<NewFrame>> /\ peak' = <<NewFrame>>)

\* C6 (as claimed): a swing is confirmed only when both conditions hold on
\* the same evaluation; otherwise the frame stays in the window and nothing
\* else changes; on confirmation the window is cleared of the earlier frames
\* and the sequence emitted for analysis is a slice centred on the peak frame:
\* at most 4 frames before it and at most 4 after it.
C6_CentredSlice ==
  [][ /\ C6_TriggerPart
      /\ op' = "frame.analyze" =>
           \E k \in 1..Len(lastPoses') :
             /\ lastPoses'[k] = peak'[1]
             /\ k - 1 <= 4
             /\ Len(lastPoses') - k <= 4 ]_vars

\* C6 (amended): as claimed up to the confirmation; the window then holds the
\* confirming frame alone, every frame accepted while triggered is appended,
\* and the sequence analysed is the confirming frame followed by the frames
\* accepted after it: 11 frames in draft 2 (MIN_FRAMES = 15 in draft 1).
C6_CaptureAfterTrigger ==
  [][ /\ C6_TriggerPart
      /\ AcceptTriggered => seq' = Append(seq, NewFrame)
      /\ op' = "frame.analyze" =>
           /\ AcceptTriggered
           /\ lastPoses' = seq'
           /\ lastPoses'[1] = peak[1]
           /\ Len(lastPoses') = IF variant = 2 THEN CAPTURE_OVER + 1 ELSE MIN_FRAMES
           /\ ~triggered' ]_vars

C6_Witness ==
  /\ op = "frame.analyze"
  /\ Len(lastPoses) = CAPTURE_OVER + 1
  /\ lastPoses[1] = peak[1]
  /\ Len(hist) >= 2 /\ hist[Len(hist)] = lastPoses[Len(lastPoses)]

\* C7 (as claimed): whenever no capture and no analysis is in progress,
\* swingCount equals the number of results stored since startDetection.
C7_CountEqualsResults ==
  (~triggered /\ calls = <<>>) => swingCount = nResults

\* C8: in draft 2 a frame that arrives while an analysis is outstanding is
\* dropped (the buffer, the trigger flag, the counter and the set of
\* outstanding analyses stay as they are, and the frame is not made into a
\* Pose); at most one analysis is outstanding at any time.
C8_FramesDropped ==
  /\ [](Len(calls) <= 1)
  /\ [][ (calls # <<>> /\ now' # now) =>
           ( /\ op' = "frame.off"
             /\ UNCHANGED <<seq, triggered, swingCount, lastTS, hist, calls,
                            lastPoses>> ) ]_vars

C8_Witness == variant = 2 /\ op = "frame.off" /\ Len(calls) = 1 /\ detecting

\* a step that handles the failure of a request
FailureStep ==
  op' \in {"analyzeResponse.fail", "analyzeResponse.nofeedback",
           "ttsResponse.notok", "ttsResponse.fail"}

\* C9: the failure of the analyze or the TTS request changes neither the
\* frame buffer nor the trigger flag nor the swing counter nor the session,
\* and the analyzing flag returns to false with the status 'Ready'.
C9_FailureOnlyStatus ==
  /\ [][ FailureStep =>
           UNCHANGED <<seq, triggered, swingCount, lastTS, detecting, initialized,
                       session, hist>> ]_vars
  /\ (analyzing ~> (~analyzing /\ status = "Ready"))

\* after a failed analysis of the session's first swing, a frame is
\* handled as usual
C9_Witness ==
  /\ session = 1 /\ Len(swingTS) = 1 /\ nResults = 0
  /\ calls = <<>> /\ ~analyzing /\ ~triggered /\ status = "Ready"
  /\ op \in {"frame.quiet", "frame.trigger"}

\* C10 (amended): the score is round(min(turn, 120) / 120 * 40 + speed / 100 *
\* 30 + min(dist, 120) / 120 * 20 + rhythm / 100 * 10); a record with turn >=
\* 120, speed = 100, dist >= 120 and rhythm = 100 scores exactly 100 and gets
\* the 'powerful' message; the record (90, 100, 130, 100) scores 90 and gets it too.
C10_ScoreFormulaCap120 ==
  output # <<>> =>
    LET m == input[1]
        sc == output[1].score
        \* 120 times the weighted sum
        x == 40 * Min(m.maxShoulderTurn, 120) + 36 * m.peakArmSpeed
             + 20 * Min(m.contactMetrics.distanceFromCore, 120) + 12 * m.swingRhythm
    IN  /\ 240 * sc - 120 <= 2 * x
        /\ 2 * x < 240 * sc + 120
        /\ ( /\ m.maxShoulderTurn >= 120
             /\ m.peakArmSpeed = 100
             /\ m.contactMetrics.distanceFromCore >= 120
             /\ m.swingRhythm = 100 )
           => (sc = 100 /\ output[1].feedback = MSG_POWERFUL)
        /\ ( /\ m.maxShoulderTurn = 90
             /\ m.peakArmSpeed = 100
             /\ m.contactMetrics.distanceFromCore = 130
             /\ m.swingRhythm = 100 )
           => (sc = 90 /\ output[1].feedback = MSG_POWERFUL)

C10_Witness ==
  /\ output # <<>>
  /\ input[1].maxShoulderTurn = 90
  /\ input[1].peakArmSpeed = 100
  /\ input[1].contactMetrics.distanceFromCore = 130
  /\ input[1].swingRhythm = 100
  /\ output[1].score = 90

\* C11 (as claimed): the message is chosen by five rows, first match wins:
\* score > 85 'powerful'; score > 70 'good'; shoulder ratio < 0.5
\* 'insufficient rotation'; speed ratio < 0.4 'too slow'; else 'rhythm'; the
\* contact distance has no say beyond the score.
C11_FiveRowTable ==
  output # <<>> =>
    LET m == input[1]
        score == output[1].score
    IN  output[1].feedback =
          IF score > 85 THEN MSG_POWERFUL
          ELSE IF score > 70 THEN MSG_GOOD
          ELSE IF 2 * Min(m.maxShoulderTurn, SHOULDER_CAP) < SHOULDER_CAP THEN MSG_ROTATION
          ELSE IF 10 * m.peakArmSpeed < 4 * 100 THEN MSG_SLOW
          ELSE MSG_RHYTHM

\* C11 (amended): six rows, first match wins: score > 85 'powerful'; score >
\* 70 'good'; maxShoulderTurn < 50 degrees 'insufficient rotation';
\* distanceFromCore < 40 'extend the arm'; peakArmSpeed < 40 'too slow'; else
\* 'rhythm'. Each message is returned on exactly the records of its row.
C11_SixRowTable ==
  output # <<>> =>
    LET m == input[1]
        score == output[1].score
        f == output[1].feedback
        low == score <= 70
        turned == m.maxShoulderTurn >= 50
        far == m.contactMetrics.distanceFromCore >= 40
        fast == m.peakArmSpeed >= 40
    IN  /\ (f = MSG_POWERFUL) <=> (score > 85)
        /\ (f = MSG_GOOD) <=> (score > 70 /\ score <= 85)
        /\ (f = MSG_ROTATION) <=> (low /\ ~turned)
        /\ (f = MSG_EXTEND) <=> (low /\ turned /\ ~far)
        /\ (f = MSG_SLOW) <=> (low /\ turned /\ far /\ ~fast)
        /\ (f = MSG_RHYTHM) <=> (low /\ turned /\ far /\ fast)

\* the contact-distance row decides: turn and speed pass their rows
C11_Witness ==
  /\ output # <<>>
  /\ output[1].feedback = MSG_EXTEND
  /\ input[1].maxShoulderTurn >= 60
  /\ input[1].peakArmSpeed >= 40

\* C12: on every metrics record in the ranges calculateMetrics returns
\* (turn 0..180, speed 0..100, distance >= 0, rhythm 0..100) evaluateMetrics
\* returns an integer score in 0..100 and one of the table's messages, never
\* the initial placeholder.
C12_TotalAndBounded ==
  output # <<>> =>
    /\ output[1].score \in 0..100
    /\ output[1].feedback \in {MSG_POWERFUL, MSG_GOOD, MSG_ROTATION, MSG_EXTEND,
                               MSG_SLOW, MSG_RHYTHM}
    /\ output[1].feedback # MSG_INITIAL

\* the largest record: every ratio over its cap
C12_Witness ==
  /\ output # <<>>
  /\ input[1].maxShoulderTurn = 180
  /\ input[1].contactMetrics.distanceFromCore = 130
  /\ input[1].peakArmSpeed = 100 /\ input[1].swingRhythm = 100
  /\ output[1].score = 100

\* ------------------------------------------ the detector on a scripted window
\* the poses of a window: those of PoseIds, the two threshold poses, the
\* pose with the wrist hardly visible and the two of the left-handed player
WindowPoses == (1..7) \cup {9, 10}
WindowLen == 3

\* the hook as mounted, and a window of frames (input) still to be delivered
WindowInit ==
  /\ \E v \in {1, 2} : HookInit(v)
  /\ input \in [1..WindowLen -> WindowPoses]
  /\ output = <<>>

\* the frame loop delivers the next frame of the window, one frame period
\* after the last one
DeliverFrame ==
  LET t == now + FramePeriod
      det == <<Head(input)>>
  IN  /\ detecting
      /\ input # <<>>
      /\ now' = t
      /\ body' = det[1]
      /\ input' = Tail(input)
      /\ Set(IF variant = 1 THEN onFrame1(Cur, t, det) ELSE onFrame2(Cur, t, det))
      /\ UNCHANGED <<variant, loading, irregular, output>>

WindowNext == InitDone \/ StartDetection \/ DeliverFrame

WindowSpec == WindowInit /\ [][WindowNext]_vars

\* the thresholds the specification gives for the detector: minimum wrist
\* speed 0.75 units/s, rise time inside 60..250 ms, minimum rotation 40 degrees
SPEC_RISE_MIN_MS == 60
SPEC_RISE_MAX_MS == 250
SPEC_MIN_ROTATION_DEG == 40

\* wrist speed between two frames above 0.75 units/s
specSpeedOver(prev, cur) ==
  LET wrist == Points(cur)[RIGHT_WRIST]
      wristPrev == Points(prev)[RIGHT_WRIST]
      dt == cur.ts - prev.ts
  IN  16 * (Sq(wrist.x - wristPrev.x) + Sq(wrist.y - wristPrev.y)) > 9 * Sq(dt)

\* rotation of the shoulder line between two frames, degrees
rotationBetween(first, last) ==
  Abs(WrapDeg(shoulderAngle(last) - shoulderAngle(first)))

\* C13 (as claimed): a window whose wrist speed rises above 0.75 units/s at
\* its newest frame, with a rise time inside 60..250 ms, and whose shoulder
\* line has turned by at least 40 degrees since the window's first frame,
\* makes the detector confirm a swing; a window with less rotation than that
\* confirms nothing.
C13_SpecThresholds ==
  [][ (AcceptUntriggered /\ Len(hist') = 3) =>
        LET w == hist'
            rise == w[3].ts - w[2].ts
            rot == rotationBetween(w[1], w[3])
        IN  /\ ( /\ specSpeedOver(w[2], w[3])
                 /\ ~specSpeedOver(w[1], w[2])
                 /\ rise >= SPEC_RISE_MIN_MS /\ rise <= SPEC_RISE_MAX_MS
                 /\ rot >= SPEC_MIN_ROTATION_DEG ) => Fired
            /\ rot < SPEC_MIN_ROTATION_DEG => ~triggered' ]_vars

\* C14: in every reachable state of either draft the frames of the buffer
\* (trigger window and capture buffer alike, across stop and start) are
\* strictly increasing in timestamp, adjacent ones at least 67 ms apart.
C14_IncreasingTimestamps ==
  \A i \in 1..(Len(seq) - 1) :
    /\ seq[i].ts < seq[i + 1].ts
    /\ seq[i + 1].ts - seq[i].ts >= THROTTLE_MS

\* a buffer that spans a stop and a start, after a frame was throttled
C14_Witness ==
  /\ Len(seq) >= 2
  /\ seq[1].sess # seq[Len(seq)].sess
  /\ op = "frame.throttled"

\* the horizon the specification recommends for the frame window (ms)
SPEC_HORIZON_MS == 400

\* C15 (as claimed): after a frame is appended in the untriggered state
\* (and no swing is confirmed on it), every frame left in the window is at
\* most the horizon older than the new frame, and every frame of the window
\* that is inside the horizon is still there.
C15_PrunedByAge ==
  [][ (AcceptUntriggered /\ ~triggered') =>
        /\ \A i \in 1..Len(seq') : NewFrame.ts - seq'[i].ts <= SPEC_HORIZON_MS
        /\ \A i \in 1..Len(seq) :
             NewFrame.ts - seq[i].ts <= SPEC_HORIZON_MS
               => \E j \in 1..Len(seq') : seq'[j] = seq[i] ]_vars

\* the swinging wrist or a shoulder of the pose is below the visibility threshold
lowConfidence(p) ==
  \E i \in {RIGHT_WRIST, LEFT_SHOULDER, RIGHT_SHOULDER} :
    Landmarks(p)[i].visibility < MIN_VISIBILITY

\* C16 (as claimed): a frame whose swinging wrist or either shoulder is
\* below the visibility threshold is not appended to the window, no trigger
\* is evaluated on it, and the window is cleared.
C16_LowConfidenceRejected ==
  [][ ( /\ now' # now
        /\ op' \notin {"frame.off", "frame.throttled", "frame.nopose"}
        /\ lowConfidence(body') )
      => ( /\ hist' = hist
           /\ seq' = <<>>
           /\ triggered' = triggered
           /\ swingCount' = swingCount ) ]_vars

\* ---- handedness ----
\* the left wrist of a pose (the hook and the calculator read the right one only)
LEFT_WRIST == 15

\* both wrists of the frame are visible enough for the sides to be compared
wristsVisible(pose) ==
  /\ Points(pose)[LEFT_WRIST].visibility > MIN_VISIBILITY
  /\ Points(pose)[RIGHT_WRIST].visibility > MIN_VISIBILITY

\* the swinging side as the visibility comparison gives it: the wrist index
swingingWrist(pose) ==
  IF Points(pose)[LEFT_WRIST].visibility > Points(pose)[RIGHT_WRIST].visibility
  THEN LEFT_WRIST ELSE RIGHT_WRIST

\* the speed condition of the trigger, on the wrist with index w
wristSpeedOver(w, prev, cur) ==
  LET wrist == Points(cur)[w]
      wristPrev == Points(prev)[w]
      dt == cur.ts - prev.ts
  IN  4 * (Sq(wrist.x - wristPrev.x) + Sq(wrist.y - wristPrev.y)) > 9 * Sq(dt)

\* C17 (as claimed): the swinging side is chosen on the first frame of the
\* session by comparing the visibility of the two wrists, and the detector
\* of the request based draft decides on that side's wrist from then on: on
\* the third frame of a session it confirms a swing exactly when the chosen
\* wrist is fast enough and the shoulder line turns fast enough.
C17_HandednessChosen ==
  [][ ( /\ variant = 2 /\ AcceptUntriggered /\ Len(hist') = 3
        /\ hist'[1].ts = FramePeriod /\ wristsVisible(hist'[1]) )
      => LET w == swingingWrist(hist'[1])
         IN  Fired <=> ( /\ wristSpeedOver(w, hist'[2], hist'[3])
                         /\ rotationOver(hist'[2], hist'[3]) ) ]_vars

\* ------------------------------- the calculator and the trigger, alone
\* calculateMetrics is a public static function and the trigger reads
\* nothing but the window it is handed: both are applied here to pose
\* sequences whose timestamps may repeat or go backwards
CalcPoses == {2, 7, 8}
CalcGaps == {0 - FramePeriod, 0, FramePeriod}
CalcLen == 5
CalcBase == 700

\* the sequences of up to n frames: the first at CalcBase, every further one
\* a gap after the frame before it
RECURSIVE PoseSequences(_)
PoseSequences(n) ==
  IF n = 0 THEN {<<>>}
  ELSE LET shorter == PoseSequences(n - 1)
       IN  shorter \cup
           { Append(s, MkPose(IF s = <<>> THEN CalcBase ELSE s[Len(s)].ts + g, p, 1)) :
               s \in {q \in shorter : Len(q) = n - 1}, p \in CalcPoses, g \in CalcGaps }

CalcInit ==
  /\ HookInit(2)
  /\ input \in PoseSequences(CalcLen)
  /\ output = <<>>

\* TennisMetricsCalculator.calculateMetrics(input); the peak data it computes
\* on the way is kept beside the record
Calculate ==
  /\ output = <<>>
  /\ output' = <<[call |-> "calculateMetrics", value |-> calculateMetrics(input),
                  peak |-> calculatePeakArmSpeed(input)]>>
  /\ UNCHANGED <<hookVars, input>>

\* the trigger part of onFrame of draft v, untriggered, with the last frame
\* of the input as the new pose and the frames before it as the window
Detect(v) ==
  /\ output = <<>> /\ input # <<>>
  /\ LET n == Len(input)
         st == [Cur EXCEPT !.seq = LastN(SubSeq(input, 1, n - 1), 3)]
         r == IF v = 1 THEN detect1(st, input[n]) ELSE detect2(st, input[n])
     IN  output' = <<[call |-> "onFrame", draft |-> v, op |-> r.op,
                      triggered |-> r.triggered, swingCount |-> r.swingCount]>>
  /\ UNCHANGED <<hookVars, input>>

CalcNext == Calculate \/ \E v \in {1, 2} : Detect(v)

CalcSpec == CalcInit /\ [][CalcNext]_vars

\* the call of calculateMetrics has returned
Calculated == output # <<>> /\ output[1].call = "calculateMetrics"

\* C18: for every pose sequence of fewer than 5 frames, whatever the frames
\* hold, calculateMetrics returns the record of zeros: maxShoulderTurn 0,
\* peakArmSpeed 0, contactMetrics {0, 0, false}, swingRhythm 0.
C18_ShortGivesEmpty ==
  (Calculated /\ Len(input) < 5) =>
    output[1].value =
      [maxShoulderTurn |-> 0, peakArmSpeed |-> 0,
       contactMetrics |-> [distanceFromCore |-> 0, armAngle |-> 0,
                           isFrontContact |-> FALSE],
       swingRhythm |-> 0]

\* four evenly spaced frames, all joints visible, the wrist moving in between
C18_Witness ==
  /\ Calculated /\ Len(input) = 4
  /\ \A i \in 2..4 : input[i].ts - input[i - 1].ts = FramePeriod
  /\ input[1].p = 2 /\ input[2].p = 8 /\ input[3].p = 2
  /\ output[1].value.swingRhythm = 0

\* the pair (i - 1, i) of the sequence counts for the peak: time has passed
\* and the right wrist is visible in both frames
pairCounts(poses, i) ==
  /\ poses[i].ts - poses[i - 1].ts > 0
  /\ Points(poses[i - 1])[RIGHT_WRIST].visibility > MIN_VISIBILITY
  /\ Points(poses[i])[RIGHT_WRIST].visibility > MIN_VISIBILITY

pairDistSq(poses, i) ==
  calculateDistanceSq(Points(poses[i - 1])[RIGHT_WRIST], Points(poses[i])[RIGHT_WRIST])

\* the wrist is faster over pair i than over pair j
pairFaster(poses, i, j) ==
  FracGt(pairDistSq(poses, i), Sq(poses[i].ts - poses[i - 1].ts),
         pairDistSq(poses, j), Sq(poses[j].ts - poses[j - 1].ts))

\* the pairs that count and over which the wrist moves at all
movingPairs(poses) ==
  {i \in 2..Len(poses) : pairCounts(poses, i) /\ pairDistSq(poses, i) > 0}

\* the contact frame: the second frame of the first pair of greatest wrist
\* speed, the first frame of the sequence when no pair counts
contactFrameOf(poses) ==
  IF movingPairs(poses) = {} THEN poses[1]
  ELSE poses[CHOOSE i \in movingPairs(poses) :
               \A j \in movingPairs(poses) :
                 /\ ~pairFaster(poses, j, i)
                 /\ j < i => pairFaster(poses, i, j)]

\* the right shoulder, elbow or wrist, or one of the hips, is not visible
jointsMissing(pose) ==
  \E i \in {RIGHT_SHOULDER, RIGHT_ELBOW, RIGHT_WRIST, LEFT_HIP, RIGHT_HIP} :
    Points(pose)[i].visibility <= MIN_VISIBILITY

ContactDefaults == [distanceFromCore |-> 0, armAngle |-> 0, isFrontContact |-> FALSE]

\* C19: for every sequence of at least 5 frames, when a joint of the right
\* arm or a hip is not visible at the contact frame, contactMetrics is
\* {0, 0, false} while shoulder turn, arm speed and rhythm are still the
\* computed ones; and when the wrist is below the visibility threshold in
\* every frame, contactMetrics is {0, 0, false} and peakArmSpeed is 0.
C19_ContactFallback ==
  (Calculated /\ Len(input) >= 5) =>
    LET out == output[1].value
    IN  /\ jointsMissing(contactFrameOf(input)) =>
             /\ out.contactMetrics = ContactDefaults
             /\ out.maxShoulderTurn = calculateMaxShoulderTurn(input)
             /\ out.peakArmSpeed = calculatePeakArmSpeed(input).speed
             /\ out.swingRhythm = calculateSwingRhythm(input)
        /\ (\A i \in 1..Len(input) :
              Points(input[i])[RIGHT_WRIST].visibility <= MIN_VISIBILITY) =>
             /\ out.contactMetrics = ContactDefaults
             /\ out.peakArmSpeed = 0

\* the wrist is fastest into a frame whose left hip is hidden: the arm speed
\* and the rhythm are computed, the contact metrics are the defaults
C19_Witness ==
  /\ Calculated /\ Len(input) >= 5
  /\ movingPairs(input) # {}
  /\ contactFrameOf(input).p = 8
  /\ output[1].value.contactMetrics = ContactDefaults
  /\ output[1].value.peakArmSpeed > 0
  /\ output[1].value.swingRhythm > 0

\* Math.round(Math.min(100, v * 50)) for the velocity v = sqrt(dSq) / dt
speedScore(dSq, dt) ==
  IF dSq >= 4 * Sq(dt) THEN 100 ELSE RoundSqrt(dSq, 100, dt, 100)

\* the trigger part of onFrame has returned
Detected == output # <<>> /\ output[1].call = "onFrame"

\* C20: a pair of frames with curr.ts - prev.ts <= 0 is skipped by
\* _calculatePeakArmSpeed: the peak frame index is 0 or the second frame of a
\* pair over which time has passed, and the speed is the score of the
\* greatest velocity over such pairs, a whole number in 0..100 (0 when there
\* is none); and the trigger of onFrame, handed a newest pair with
\* curr.ts - prev.ts <= 0, returns without confirming a swing.
C20_NoZeroElapsed ==
  /\ Calculated =>
       LET pk == output[1].peak
       IN  /\ pk.speed \in 0..100
           /\ output[1].value.peakArmSpeed \in 0..100
           /\ IF movingPairs(input) = {}
              THEN pk.speed = 0 /\ pk.peakFrameIndex = 0
              ELSE LET i == pk.peakFrameIndex + 1
                   IN  /\ i \in movingPairs(input)
                       /\ input[i] = contactFrameOf(input)
                       /\ pk.speed = speedScore(pairDistSq(input, i),
                                                input[i].ts - input[i - 1].ts)
  /\ ( /\ Detected /\ Len(input) >= 3
       /\ input[Len(input)].ts - input[Len(input) - 1].ts <= 0 ) =>
       ~output[1].triggered /\ output[1].swingCount = swingCount

\* the wrist is visible and moves over pairs of frames with a zero and with a
\* negative elapsed time and over no other pair: nothing is divided, the
\* speed is 0
C20_Witness ==
  /\ Calculated /\ Len(input) >= 5
  /\ \E i, j \in 2..Len(input) :
       /\ input[i].ts - input[i - 1].ts = 0
       /\ input[j].ts - input[j - 1].ts < 0
       /\ \A k \in {i, j} :
            /\ pairDistSq(input, k) > 0
            /\ Points(input[k])[RIGHT_WRIST].visibility > MIN_VISIBILITY
            /\ Points(input[k - 1])[RIGHT_WRIST].visibility > MIN_VISIBILITY
  /\ movingPairs(input) = {}
  /\ output[1].value.peakArmSpeed = 0

\* --------------------------------- the rotation of the shoulder line, alone
\* Math.atan2 gives an angle of at most half a turn either way (degrees)
HalfTurn == 180
\* the shoulder-line angles of two frames, in whole degrees
Angles == (1 - HalfTurn)..HalfTurn

AngleInit ==
  /\ HookInit(2)
  /\ input \in Angles \X Angles
  /\ output = <<>>

\* onFrame: ang = atan2(cur) - atan2(prev), wrapped; Math.abs(ang / dt)
\* takes its magnitude. input[1] is the angle of cur, input[2] that of prev
Rotate ==
  /\ output = <<>>
  /\ output' = <<Abs(WrapDeg(input[1] - input[2]))>>
  /\ UNCHANGED <<hookVars, input>>

AngleSpec == AngleInit /\ [][Rotate]_vars

\* C21: for any two shoulder-line angles a, b in (-180, 180] degrees the
\* rotation magnitude the detector uses is min(|a-b|, 360-|a-b|) and lies in
\* 0..180 degrees; a raw difference of 350 degrees counts as 10 degrees.
C21_RotationWrapped ==
  output # <<>> =>
    LET d == Abs(input[1] - input[2])
    IN  /\ output[1] = Min(d, 2 * HalfTurn - d)
        /\ output[1] \in 0..HalfTurn

\* angles of 175 and -175 degrees: a raw difference of 350, used as 10
C21_Witness ==
  /\ input = <<175, 0 - 175>>
  /\ output = <<10>>

\* ------------------------------------------------- the playback, on its own
\* speak() is called by analyze() only, and analyze() by the frame that
\* completes a capture: here the capture is taken as given, so that speak
\* calls, the callbacks of the playback and stopDetection interleave freely.
\* MaxSpeaks bounds the results of one session and the feedback items that
\* are on their way or playing when a further capture completes
MaxSpeaks == 3

\* a captured swing: five frames, the wrist moving, metrics that pass isValid
SwingPoses ==
  <<MkPose(70, 1, 1), MkPose(140, 2, 1), MkPose(210, 1, 1), MkPose(280, 2, 1),
    MkPose(350, 1, 1)>>

\* utt.onend = () => { speakBusy.current = false; playQueue(); }
onend(st) ==
  playQueue([st EXCEPT !.speakBusy = FALSE, !.utterance = <<>>,
                       !.op = "utterance.end"])

\* onFrame with the capture complete: analyze(seq.current.slice())
CaptureDone ==
  /\ detecting /\ initialized
  /\ variant = 2 => ~analyzing
  /\ nResults + Len(calls) < MaxSpeaks
  /\ Len(calls) + Len(audioQ) + Len(clips) + Len(queue) + Len(utterance) < MaxSpeaks
  /\ Set(IF variant = 1
         THEN [analyze1(Cur, SwingPoses) EXCEPT !.op = "frame.analyze"]
         ELSE [analyze2(Cur, SwingPoses) EXCEPT !.op = "frame.analyze"])
  /\ UNCHANGED <<variant, now, loading, irregular, body, pureVars>>

\* draft 1: the utterance being spoken ends
UtteranceEnd ==
  /\ variant = 1 /\ utterance # <<>>
  /\ Set(onend(Cur))
  /\ UNCHANGED <<variant, now, loading, irregular, body, pureVars>>

\* draft 1: the 'end' event of an utterance that speechSynthesis.cancel()
\* cut short. Engines differ: some deliver 'end', others an 'error' event,
\* for which the hook has no handler -- then this step is never taken
CancelledEnd ==
  /\ variant = 1 /\ utterance = <<>> /\ speakBusy
  /\ Set(onend(Cur))
  /\ UNCHANGED <<variant, now, loading, irregular, body, pureVars>>

PlaybackNext ==
  \/ InitDone
  \/ StartDetection
  \/ StopDetection
  \/ CaptureDone
  \/ UtteranceEnd
  \/ CancelledEnd
  \/ \E i \in 1..2, outcome \in {"ok", "nofeedback", "fail"}, text \in Feedbacks :
       AnalyzeResponse(i, outcome, text)
  \/ \E i \in 1..2, outcome \in {"ok", "notok", "fail"} : TtsResponse(i, outcome)
  \/ \E i \in 1..2 : AudioDone(i)

PlaybackSpec == Init /\ [][PlaybackNext]_vars

\* a clip or an utterance starts in this step
ClipStarts == Len(clips') > Len(clips)
UtteranceStarts == utterance' # <<>> /\ utterance' # utterance

\* what starts is the item that waited longest: the head of the queue, when
\* something was waiting
StartsInOrder ==
  /\ (ClipStarts /\ audioQ # <<>>) => clips'[Len(clips')] = Head(audioQ)
  /\ (UtteranceStarts /\ queue # <<>>) => utterance'[1] = Head(queue)

\* C22 (as claimed): in both drafts, however speak calls, the callbacks of
\* the playback and stopDetection interleave, at most one utterance or clip
\* is playing at a time, the busy flag (speakBusy, playing) is true exactly
\* while an utterance or clip the hook started is still playing, and what
\* starts next is the head of the queue.
C22_PlaybackSerialized ==
  /\ [](Len(clips) <= 1 /\ Len(utterance) <= 1)
  /\ [](playing <=> clips # <<>>)
  /\ [](speakBusy <=> utterance # <<>>)
  /\ [][StartsInOrder]_vars

====
